---- MODULE Spec2Model ----
(***************************************************************************)
(* cargo-lichking, src/bundle.rs: the license bundle generator.            *)
(*                                                                         *)
(* Texts, file names and package names are sequences of one-character      *)
(* strings, so that normalisation, edit distances, slicing, line splitting *)
(* and lexicographic ordering are computed the way the code computes them. *)
(***************************************************************************)
EXTENDS Naturals, Integers, Sequences, FiniteSets, TLC

VARIABLES
    phase,      \* where the driver stands
    given,      \* run's `packages` argument as the caller passed it
    packages,   \* the same vector once run has sorted it in place
    variant,    \* run's `variant` argument: Bundle::Inline { file }
    idx,        \* position of the `for package in context.packages` loop
    context,    \* the two flags of Context; None before run builds it
    shell,      \* diagnostics given to context.shell, in order
    out,        \* lines that reached the output stream, in order
    quota,      \* Some(n): stdout fails after n more writes; None: never
    result,     \* what run returned
    other,      \* a second run over the same packages and the same file tree
    call,       \* arguments of a function applied on its own
    ret         \* what that function returned

vars == <<phase, given, packages, variant, idx, context, shell, out, quota, result, other, call, ret>>

----------------------------------------------------------------------------
(* Bounds of the model. *)

\* longest text given to normalize
MaxLen == 4
\* most packages given to run
MaxPackages == 2
\* most entries in one package directory
MaxFiles == 2
\* most candidate texts given to choose
MaxCandidates == 3
\* latest write at which the output stream may start failing
MaxFailAt == 3
\* most single-character edits between a template and a scored text
MaxEdits == 1

\* Option<T>: None is the empty sequence, Some(x) the sequence of x alone
None == <<>>
Some(x) == <<x>>

----------------------------------------------------------------------------
(* Characters and strings. *)

SP == " "
LF == "\n"
CR == "\r"

Min(a, b) == IF a < b THEN a ELSE b

\* char::to_uppercase on the letters the model uses
UpperChar(c) ==
    CASE c = "a" -> "A" [] c = "b" -> "B" [] c = "c" -> "C" [] c = "d" -> "D"
      [] c = "e" -> "E" [] c = "f" -> "F" [] c = "g" -> "G" [] c = "h" -> "H"
      [] c = "i" -> "I" [] c = "l" -> "L" [] c = "m" -> "M" [] c = "n" -> "N"
      [] c = "o" -> "O" [] c = "p" -> "P" [] c = "r" -> "R" [] c = "s" -> "S"
      [] c = "t" -> "T" [] c = "u" -> "U" [] c = "v" -> "V" [] c = "x" -> "X"
      [] OTHER -> c

\* str::to_uppercase
to_uppercase(s) == [i \in 1..Len(s) |-> UpperChar(s[i])]

\* str::replace(from, to) for a one-character pattern
ReplaceChar(s, from, to) == [i \in 1..Len(s) |-> IF s[i] = from THEN to ELSE s[i]]

\* str::replace("  ", " "): the non-overlapping matches, left to right, one pass
RECURSIVE ReplaceDoubleSpace(_)
ReplaceDoubleSpace(s) ==
    IF Len(s) < 2 THEN s
    ELSE IF s[1] = SP /\ s[2] = SP
         THEN <<SP>> \o ReplaceDoubleSpace(SubSeq(s, 3, Len(s)))
         ELSE <<s[1]>> \o ReplaceDoubleSpace(Tail(s))

\* a variant of normalize that collapses double spaces before it replaces line ends
normalize_nl_late(text) ==
    to_uppercase(ReplaceChar(ReplaceChar(ReplaceDoubleSpace(text), CR, SP), LF, SP))

normalize(text) ==
    to_uppercase(ReplaceDoubleSpace(ReplaceChar(ReplaceChar(text, CR, SP), LF, SP)))

\* str::lines: split at "\n", a final empty piece dropped, one trailing "\r"
\* stripped from each line
StripCR(line) ==
    IF Len(line) > 0 /\ line[Len(line)] = CR THEN SubSeq(line, 1, Len(line) - 1) ELSE line

RECURSIVE SplitLF(_, _)
SplitLF(s, cur) ==
    IF s = <<>> THEN (IF cur = <<>> THEN <<>> ELSE <<StripCR(cur)>>)
    ELSE IF Head(s) = LF THEN <<StripCR(cur)>> \o SplitLF(Tail(s), <<>>)
    ELSE SplitLF(Tail(s), Append(cur, Head(s)))

Lines(text) == SplitLF(text, <<>>)

----------------------------------------------------------------------------
(* strsim's edit distances.  rows is the matrix of the dynamic programme *)
(* so far: rows[i + 1][j + 1] is the distance between the first i          *)
(* characters of a and the first j of b.                                   *)

\* the row of the i-th character ca of a, cell by cell; acc is the row so far
RECURSIVE LevRow(_, _, _, _)
LevRow(prev, ca, b, acc) ==
    LET j == Len(acc) IN
    IF j > Len(b) THEN acc
    ELSE LET cost == IF ca = b[j] THEN 0 ELSE 1
             v == Min(acc[j] + 1, Min(prev[j + 1] + 1, prev[j] + cost))
         IN  LevRow(prev, ca, b, Append(acc, v))

RECURSIVE LevRows(_, _, _)
LevRows(a, b, rows) ==
    IF Len(rows) > Len(a) THEN rows[Len(rows)][Len(b) + 1]
    ELSE LevRows(a, b, Append(rows, LevRow(rows[Len(rows)], a[Len(rows)], b, <<Len(rows)>>)))

\* the row of the empty prefix of a
FirstRow(b) == [j \in 1..(Len(b) + 1) |-> j - 1]

levenshtein(a, b) ==
    IF a = b THEN 0
    ELSE IF Len(a) = 0 THEN Len(b)
    ELSE IF Len(b) = 0 THEN Len(a)
    ELSE LevRows(a, b, <<FirstRow(b)>>)

\* as LevRow, with the transposition of two adjacent characters
RECURSIVE OsaRow(_, _, _, _, _, _)
OsaRow(prev2, prev, a, i, b, acc) ==
    LET j == Len(acc) IN
    IF j > Len(b) THEN acc
    ELSE LET cost == IF a[i] = b[j] THEN 0 ELSE 1
             v == Min(acc[j] + 1, Min(prev[j + 1] + 1, prev[j] + cost))
             t == IF i > 1 /\ j > 1 /\ a[i] # b[j] /\ a[i] = b[j - 1] /\ b[j] = a[i - 1]
                  THEN Min(v, prev2[j - 1] + 1)
                  ELSE v
         IN  OsaRow(prev2, prev, a, i, b, Append(acc, t))

RECURSIVE OsaRows(_, _, _)
OsaRows(a, b, rows) ==
    IF Len(rows) > Len(a) THEN rows[Len(rows)][Len(b) + 1]
    ELSE OsaRows(a, b, Append(rows, OsaRow(rows[IF Len(rows) > 1 THEN Len(rows) - 1 ELSE 1],
                                           rows[Len(rows)], a, Len(rows), b, <<Len(rows)>>)))

osa_distance(a, b) ==
    IF a = b THEN 0
    ELSE IF Len(a) = 0 THEN Len(b)
    ELSE IF Len(b) = 0 THEN Len(a)
    ELSE OsaRows(a, b, <<FirstRow(b)>>)

----------------------------------------------------------------------------
(* License (license.rs): the closed set of license kinds, its templates. *)

MIT == [kind |-> "MIT", custom |-> <<>>, licenses |-> <<>>]
Apache_2_0 == [kind |-> "Apache_2_0", custom |-> <<>>, licenses |-> <<>>]
Unspecified == [kind |-> "Unspecified", custom |-> <<>>, licenses |-> <<>>]
Custom(name) == [kind |-> "Custom", custom |-> name, licenses |-> <<>>]
Multiple(ls) == [kind |-> "Multiple", custom |-> <<>>, licenses |-> ls]

Foo == <<"f", "o", "o">>

\* the template texts, cut down to ten characters each
MitTemplate == <<"M", "i", "t", LF, "r", "i", "g", "h", "t", "s">>
ApacheTemplate == <<"A", "p", "a", "c", "h", "e", LF, "v", "2", ".">>

\* License::template(): Some(text) for the well-known licenses, else None
HasTemplate(license) == license.kind \in {"MIT", "Apache_2_0"}

Template(license) ==
    CASE license.kind = "MIT" -> MitTemplate
      [] license.kind = "Apache_2_0" -> ApacheTemplate

----------------------------------------------------------------------------
(* Effects.  Every function below returns, in program order, the effects   *)
(* its statements have on the run when none of them fails: lines written   *)
(* with writeln!(out, ..)? ("out"), lines printed with println! ("stdout", *)
(* the same stream when the bundle goes to stdout), calls of context.shell *)
(* ("shell"), assignments to a flag of Context ("flag"), and the ways a    *)
(* call ends the run early ("stop").  Apply cuts the sequence where the    *)
(* run ends: at a stop, or at the write the stream refuses.                *)

NoLicense == [kind |-> "", custom |-> <<>>, licenses |-> <<>>]

Effect(stream, kind) ==
    [stream |-> stream, kind |-> kind, severity |-> "", name |-> <<>>,
     license |-> NoLicense, text |-> <<>>, score |-> 0, len |-> 0]

Blank == Effect("out", "blank")
Separator == Effect("out", "separator")
TextLine(line) == [Effect("out", "text") EXCEPT !.text = line]
Banner(root) == [Effect("out", "banner") EXCEPT !.name = root]
Header(name, license) == [Effect("out", "header") EXCEPT !.name = name, !.license = license]
Checking(path, license) == [Effect("stdout", "checking") EXCEPT !.name = path, !.license = license]
ScoreLine(score, len) == [Effect("stdout", "score") EXCEPT !.score = score, !.len = len]
Say(severity, what, name, license, path) ==
    [Effect("shell", what) EXCEPT !.severity = severity, !.name = name,
                                  !.license = license, !.text = path]
SetMissingLicense == Effect("flag", "missing_license")
SetLowQualityLicense == Effect("flag", "low_quality_license")
Panic == Effect("stop", "panic")
IoError == Effect("stop", "io_error")

IsWrite(e) == e.stream \in {"out", "stdout"}
IsShell(e) == e.stream = "shell"

\* how many of the first k effects are writes to the output stream
WritesAmong(effects, k) == Cardinality({i \in 1..k : IsWrite(effects[i])})

\* the k-th effect does not happen: it is a stop, or the stream refuses the write
Refused(effects, q, k) ==
    \/ effects[k].stream = "stop"
    \/ IsWrite(effects[k]) /\ q # None /\ WritesAmong(effects, k - 1) >= q[1]

\* the first effect that does not happen; Len + 1 when all do
StopAt(effects, q) ==
    IF \E k \in 1..Len(effects) : Refused(effects, q, k)
    THEN CHOOSE k \in 1..Len(effects) :
            Refused(effects, q, k) /\ \A j \in 1..(k - 1) : ~Refused(effects, q, j)
    ELSE Len(effects) + 1

\* a failed writeln! is an io error carried up by `?`; a failed println! panics
StatusAt(effects, k) ==
    IF k > Len(effects) THEN "ok"
    ELSE IF effects[k].stream = "stop" THEN effects[k].kind
    ELSE IF effects[k].stream = "out" THEN "io_error"
    ELSE "panic"

Applied(ctx, sh, o, q, done, status) ==
    [missing_license |->
        ctx.missing_license \/ \E i \in 1..Len(done) : done[i] = SetMissingLicense,
     low_quality_license |->
        ctx.low_quality_license \/ \E i \in 1..Len(done) : done[i] = SetLowQualityLicense,
     shell |-> sh \o SelectSeq(done, IsShell),
     out |-> o \o SelectSeq(done, IsWrite),
     quota |-> IF q = None THEN None ELSE Some(q[1] - Len(SelectSeq(done, IsWrite))),
     status |-> status]

ApplyUpTo(ctx, sh, o, q, effects, k) ==
    Applied(ctx, sh, o, q, SubSeq(effects, 1, k - 1), StatusAt(effects, k))

\* the flags, the shell, the output stream and the status after the effects
Apply(ctx, sh, o, q, effects) == ApplyUpTo(ctx, sh, o, q, effects, StopAt(effects, q))

----------------------------------------------------------------------------
(* check_against_template *)

\* MAX_LEVENSHTEIN_RATIO = 0.1 as the fraction 1 / MaxLevenshteinRatioDen.  For
\* lengths below 2^24 the f32 quotient score / len compares with 0.1f32 as the
\* exact quotient compares with 1/10.
MaxLevenshteinRatioDen == 10

RatioAbove(score, len) == MaxLevenshteinRatioDen * score > len
RatioBelow(score, len) == MaxLevenshteinRatioDen * score < len

\* &text[offset..(offset + template.len())] panics when the end is past the text
SliceInBounds(text, from, to) == from <= to /\ to <= Len(text)
Slice(text, from, to) == SubSeq(text, from + 1, to)

\* the println! of a license of a License::Multiple that passed, then the rest
ThenRest(line, rest) == [effects |-> <<line>> \o rest.effects, matches |-> rest.matches]

\* the loop over the licenses of a License::Multiple, from the i-th on
RECURSIVE CheckEach(_, _, _)
CheckEach(text, licenses, i) ==
    IF i > Len(licenses) THEN [effects |-> <<>>, matches |-> TRUE]
    ELSE IF ~HasTemplate(licenses[i]) THEN [effects |-> <<>>, matches |-> FALSE]
    ELSE LET template == normalize(Template(licenses[i]))
             offset == osa_distance(text, template)
             score == levenshtein(Slice(text, offset, offset + Len(template)), template)
         IN  IF ~SliceInBounds(text, offset, offset + Len(template))
             THEN [effects |-> <<Panic>>, matches |-> FALSE]
             ELSE IF RatioAbove(score, Len(template))
             THEN [effects |-> <<ScoreLine(score, Len(template))>>, matches |-> FALSE]
             ELSE ThenRest(ScoreLine(score, Len(template)), CheckEach(text, licenses, i + 1))

\* the else branch: a license that is not a License::Multiple
CheckSingle(text, license) ==
    IF HasTemplate(license)
    THEN LET template == normalize(Template(license))
             score == levenshtein(text, template)
         IN  [effects |-> <<ScoreLine(score, Len(template))>>,
              matches |-> RatioBelow(score, Len(template))]
    ELSE [effects |-> <<>>, matches |-> FALSE]

check_against_template(raw, license) ==
    IF license.kind = "Multiple"
    THEN CheckEach(normalize(raw), license.licenses, 1)
    ELSE CheckSingle(normalize(raw), license)

----------------------------------------------------------------------------
(* Directory scans.  A directory is what fs::read_dir yields, in the order *)
(* it yields it: [ok, entries], each entry [name, text, readable]; ok is   *)
(* FALSE for a root that cannot be read.                                   *)

LICENSE == <<"L", "I", "C", "E", "N", "S", "E">>
LICENSE_MD == LICENSE \o <<".", "M", "D">>
LICENSE_TXT == LICENSE \o <<".", "T", "X", "T">>
LICENSE_MIT == LICENSE \o <<"-", "M", "I", "T">>
LICENSE_APACHE == LICENSE \o <<"-", "A", "P", "A", "C", "H", "E">>

generic_license_name(name) ==
    \/ to_uppercase(name) = LICENSE
    \/ to_uppercase(name) = LICENSE_MD
    \/ to_uppercase(name) = LICENSE_TXT

name_matches(name, license) ==
    CASE license.kind = "MIT" -> name = LICENSE_MIT
      [] license.kind = "Apache_2_0" -> name = LICENSE_APACHE
      [] license.kind = "Custom" ->
            \/ to_uppercase(name) = to_uppercase(license.custom)
            \/ to_uppercase(name) = LICENSE \o <<"-">> \o to_uppercase(license.custom)
      [] OTHER -> FALSE

LicenseText(path, text, confidence) == [path |-> path, text |-> text, confidence |-> confidence]

\* println!("checking ..") and return Ok(Some(LicenseText { .. })); c is what
\* check_against_template returned
GenericFound(c, entry, license) ==
    [effects |-> <<Checking(entry.name, license)>> \o c.effects,
     text |-> Some(LicenseText(entry.name, entry.text,
                               IF c.matches THEN "Confident" ELSE "Unsure"))]

\* the loop of find_generic_license_text from entry i on
RECURSIVE FindGenericFrom(_, _, _)
FindGenericFrom(entries, license, i) ==
    IF i > Len(entries) THEN [effects |-> <<>>, text |-> None]
    ELSE IF generic_license_name(entries[i].name) /\ entries[i].readable
         THEN GenericFound(check_against_template(entries[i].text, license), entries[i], license)
         ELSE FindGenericFrom(entries, license, i + 1)

find_generic_license_text(dir, license) ==
    IF ~dir.ok THEN [effects |-> <<IoError>>, text |-> None]
    ELSE FindGenericFrom(dir.entries, license, 1)

\* println!("checking ..") and texts.push(LicenseText { .. }); c is what
\* check_against_template returned, rest what the later entries give
FindPush(c, entry, license, rest) ==
    [effects |-> <<Checking(entry.name, license)>> \o c.effects \o rest.effects,
     texts |-> <<LicenseText(entry.name, entry.text,
                             IF c.matches THEN "Confident" ELSE "SemiConfident")>>
                 \o rest.texts]

\* the loop of find_license_text from entry i on
RECURSIVE FindFrom(_, _, _)
FindFrom(entries, license, i) ==
    IF i > Len(entries) THEN [effects |-> <<>>, texts |-> <<>>]
    ELSE IF name_matches(entries[i].name, license) /\ entries[i].readable
         THEN FindPush(check_against_template(entries[i].text, license), entries[i], license,
                       FindFrom(entries, license, i + 1))
         ELSE FindFrom(entries, license, i + 1)

find_license_text(dir, license) ==
    IF ~dir.ok THEN [effects |-> <<IoError>>, texts |-> <<>>]
    ELSE FindFrom(dir.entries, license, 1)

----------------------------------------------------------------------------
(* choose *)

IsConfident(t) == t.confidence = "Confident"
IsSemiConfident(t) == t.confidence = "SemiConfident"
NotConfident(t) == t.confidence # "Confident"
NotSemiConfident(t) == t.confidence # "SemiConfident"

\* a variant of SayPaths that names the first path only
SayFirstPath(severity, name, license, texts) ==
    IF texts = <<>> THEN <<>> ELSE <<Say(severity, "path", name, license, texts[1].path)>>

\* for text in &texts { context.shell.error("    {path}") }
SayPaths(severity, name, license, texts) ==
    [i \in 1..Len(texts) |-> Say(severity, "path", name, license, texts[i].path)]

\* a variant of choose that takes the first candidate, whatever its confidence
choose_first(name, license, texts) ==
    [effects |-> <<>>, chosen |-> IF texts = <<>> THEN None ELSE Some(texts[1])]

choose(name, license, texts) ==
    LET confident == SelectSeq(texts, IsConfident)
        rest == SelectSeq(texts, NotConfident)
        semi_confident == SelectSeq(rest, IsSemiConfident)
        unconfident == SelectSeq(rest, NotSemiConfident)
    IN
    IF Len(confident) = 1 THEN [effects |-> <<>>, chosen |-> Some(confident[1])]
    ELSE IF Len(confident) > 1 THEN
        [effects |-> <<Say("error", "multiple candidates", name, license, <<>>)>>
                        \o SayPaths("error", name, license, confident),
         chosen |-> Some(confident[1])]
    ELSE IF Len(semi_confident) = 1 THEN
        [effects |-> <<Say("warn", "low-confidence candidate", name, license, <<>>)>>
                        \o SayPaths("warn", name, license, semi_confident),
         chosen |-> Some(semi_confident[1])]
    ELSE IF Len(semi_confident) > 1 THEN
        [effects |-> <<SetLowQualityLicense,
                       Say("error", "multiple low-confidence candidates", name, license, <<>>)>>
                        \o SayPaths("error", name, license, semi_confident),
         chosen |-> Some(semi_confident[1])]
    ELSE IF Len(unconfident) = 1 THEN
        [effects |-> <<SetLowQualityLicense,
                       Say("warn", "very low-confidence candidate", name, license, <<>>)>>
                        \o SayPaths("warn", name, license, unconfident),
         chosen |-> Some(unconfident[1])]
    ELSE IF Len(unconfident) > 1 THEN
        [effects |-> <<SetLowQualityLicense,
                       Say("error", "multiple very low-confidence candidates", name, license, <<>>)>>
                        \o SayPaths("error", name, license, unconfident),
         chosen |-> Some(unconfident[1])]
    ELSE
        [effects |-> <<Say("error", "no candidate texts", name, license, <<>>),
                       SetMissingLicense>>,
         chosen |-> None]

----------------------------------------------------------------------------
(* inline_license, inline_package *)

\* for line in text.text.lines() { writeln!(out, "    {}", line)?; }
WriteLines(text) == [i \in 1..Len(Lines(text)) |-> TextLine(Lines(text)[i])]

\* if let Some(text) = choose(..)? { .. }; c is what choose returned
WriteChosen(c) ==
    c.effects \o (IF c.chosen # None THEN WriteLines(c.chosen[1].text) ELSE <<>>)

\* inline_license once find_license_text has returned f
ChooseAndWrite(f, name, license) ==
    f.effects \o WriteChosen(choose(name, license, f.texts))

inline_license(package, license, dir) ==
    ChooseAndWrite(find_license_text(dir, license), package.name, license)

\* the loop over the licenses of a License::Multiple, from the i-th on
RECURSIVE InlineEach(_, _, _, _)
InlineEach(package, licenses, dir, i) ==
    IF i > Len(licenses) THEN <<>>
    ELSE (IF i = 1 THEN <<>> ELSE <<Blank, Separator, Blank>>)
            \o inline_license(package, licenses[i], dir)
            \o InlineEach(package, licenses, dir, i + 1)

\* match text.confidence { .. } of the generic branch
GenericDiagnostics(package, text) ==
    CASE text.confidence = "Confident" -> <<>>
      [] text.confidence = "SemiConfident" ->
            <<Say("warn", "low-confidence candidate", package.name, package.license, <<>>),
              Say("warn", "path", package.name, package.license, text.path)>>
      [] text.confidence = "Unsure" ->
            <<Say("error", "very low-confidence candidate", package.name, package.license, <<>>),
              Say("error", "path", package.name, package.license, text.path)>>

\* inline_package from `if let Some(text) = find_generic_license_text(..)?` to
\* the end of its else branch; g is what find_generic_license_text returned
AfterGeneric(g, package, dir) ==
    g.effects \o
        (IF g.text # None
         THEN GenericDiagnostics(package, g.text[1]) \o WriteLines(g.text[1].text)
         ELSE CASE package.license.kind = "Unspecified" ->
                        <<Say("error", "does not specify a license",
                              package.name, package.license, <<>>)>>
                [] package.license.kind = "Multiple" ->
                        InlineEach(package, package.license.licenses, dir, 1)
                [] OTHER -> inline_license(package, package.license, dir))

inline_package(package, dir) ==
    <<Header(package.name, package.license), Blank>>
        \o AfterGeneric(find_generic_license_text(dir, package.license), package, dir)
        \o <<Blank>>

----------------------------------------------------------------------------
(* run, inline *)

\* u8 value of the characters package names are made of
Code(c) == CASE c = "a" -> 97 [] c = "b" -> 98 [] c = "d" -> 100

\* String's Ord: lexicographic by byte, a proper prefix first
RECURSIVE NameLess(_, _)
NameLess(x, y) ==
    IF y = <<>> THEN FALSE
    ELSE IF x = <<>> THEN TRUE
    ELSE IF Code(Head(x)) # Code(Head(y)) THEN Code(Head(x)) < Code(Head(y))
    ELSE NameLess(Tail(x), Tail(y))

\* a stable insertion: p goes after every package whose name is not greater
RECURSIVE InsertByName(_, _)
InsertByName(sorted, p) ==
    IF sorted = <<>> THEN <<p>>
    ELSE IF NameLess(p.name, Head(sorted).name) THEN <<p>> \o sorted
    ELSE <<Head(sorted)>> \o InsertByName(Tail(sorted), p)

RECURSIVE SortFrom(_, _, _)
SortFrom(ps, i, sorted) ==
    IF i > Len(ps) THEN sorted ELSE SortFrom(ps, i + 1, InsertByName(sorted, ps[i]))

\* a variant of run that leaves the packages in the order given
unsorted(ps) == ps

\* packages.sort_by_key(|package| package.name().to_owned()): a stable sort
sort_by_key_name(ps) == SortFrom(ps, 1, <<>>)

\* root.name()
RootName == <<"d">>

\* Context { .., missing_license: false, low_quality_license: false }
NewContext == [missing_license |-> FALSE, low_quality_license |-> FALSE]

\* the two writeln! of inline before its loop
InlineHead == <<Banner(RootName), Blank>>

\* one turn of the loop of inline
InlineStep(package, dir) == inline_package(package, dir) \o <<Blank>>

\* "Our liches failed to recognise a license in one or more packages. .."
MissingSummary == Say("error", "missing license summary", <<>>, NoLicense, <<>>)
\* "Our liches are very unsure about one or more licenses that were put into the bundle. .."
LowQualitySummary == Say("error", "low quality summary", <<>>, NoLicense, <<>>)

\* the two `if context.. { context.shell.error(..)?; }` of run
RunTail(ctx) ==
    (IF ctx.missing_license THEN <<MissingSummary>> ELSE <<>>)
        \o (IF ctx.low_quality_license THEN <<LowQualitySummary>> ELSE <<>>)

\* a variant of the result of run that looks at missing_license only
RunResultMissingOnly(ctx) == IF ctx.missing_license THEN "Err" ELSE "Ok"

\* the value run returns after inline returned Ok
RunResult(ctx) == IF ctx.missing_license \/ ctx.low_quality_license THEN "Err" ELSE "Ok"

----------------------------------------------------------------------------
(* The inputs. *)

\* all sequences over S of length at most n
SeqsUpTo(S, n) == UNION {[1..k -> S] : k \in 0..n}

NoRepeatedName(entries) ==
    \A i, j \in 1..Len(entries) : i # j => entries[i].name # entries[j].name

\* two packages may bear one name (two versions of one crate)
Package(name, license) == [name |-> name, license |-> license]

Packages ==
    {Package(<<"b">>, MIT), Package(<<"b">>, Custom(Foo)), Package(<<"b">>, Unspecified),
     Package(<<"a", "b">>, Multiple(<<MIT, Apache_2_0>>))}

License_txt == <<"L", "i", "c", "e", "n", "s", "e", ".", "t", "x", "t">>
LICENSE_FOO == LICENSE \o <<"-", "F", "O", "O">>
license_foo == <<"l", "i", "c", "e", "n", "s", "e", "-", "f", "o", "o">>
OtherText == <<"n", "o", CR, LF, "t">>

File(name, text) == [name |-> name, text |-> text, readable |-> TRUE]
\* a path fs::read_dir yields and File::open or read_to_string refuses
Unreadable(name) == [name |-> name, text |-> <<>>, readable |-> FALSE]

Files ==
    {File(LICENSE, MitTemplate), File(LICENSE, OtherText), File(License_txt, OtherText),
     File(LICENSE_MIT, MitTemplate), Unreadable(LICENSE_MIT),
     File(LICENSE_FOO, OtherText), File(license_foo, MitTemplate)}

Dirs ==
    {[ok |-> TRUE, entries |-> e] : e \in {x \in SeqsUpTo(Files, MaxFiles) : NoRepeatedName(x)}}
        \cup {[ok |-> FALSE, entries |-> <<>>]}

\* the write at which stdout starts to fail, if it does
Quotas == {None} \cup {Some(n) : n \in 0..MaxFailAt}

Idle == <<>>

----------------------------------------------------------------------------
(* One run. *)

\* one run: where it stands, its Context flags, its streams, what it returned
Run(ph, ctx, sh, o, q, res) ==
    [phase |-> ph, context |-> ctx, shell |-> sh, out |-> o, quota |-> q, result |-> res]

\* a call has returned w: its effects, and whether the run goes on
Landed(w) ==
    Run(IF w.status = "ok" THEN "inline" ELSE "done",
        Some([missing_license |-> w.missing_license,
              low_quality_license |-> w.low_quality_license]),
        w.shell, w.out, w.quota,
        IF w.status = "ok" THEN "none" ELSE w.status)

\* run up to the loop of inline
Started(q) == Landed(Apply(NewContext, <<>>, <<>>, q, InlineHead))

\* one turn of the loop of inline, for a run that is in the loop
Inlined(r, package, dir) ==
    IF r.phase # "inline" THEN r
    ELSE Landed(Apply(r.context[1], r.shell, r.out, r.quota, InlineStep(package, dir)))

\* run after inline returned Ok
Finished(r) ==
    IF r.phase # "inline" THEN r
    ELSE Run("done", r.context, r.shell \o RunTail(r.context[1]), r.out, r.quota,
             RunResult(r.context[1]))

Here == Run(phase, context, shell, out, quota, result)

Become(r) ==
    /\ phase' = r.phase
    /\ context' = r.context
    /\ shell' = r.shell
    /\ out' = r.out
    /\ quota' = r.quota
    /\ result' = r.result

NotStarted ==
    /\ phase = "start"
    /\ idx = 0
    /\ context = None
    /\ shell = <<>>
    /\ out = <<>>
    /\ quota = None
    /\ result = "none"

Init ==
    /\ NotStarted
    /\ given \in SeqsUpTo(Packages, MaxPackages)
    /\ packages = given
    /\ variant \in {"stdout", "file"}
    /\ other = Idle
    /\ call = Idle
    /\ ret = Idle

\* run up to the loop of inline.  A bundle file is opened with File::open,
\* read-only: the open or the first write fails.
RunStart ==
    /\ phase = "start"
    /\ packages' = sort_by_key_name(packages)
    /\ \E q \in Quotas : Become(Started(IF variant = "file" THEN Some(0) ELSE q))
    /\ idx' = 1
    /\ UNCHANGED <<given, variant, other, call, ret>>

\* one turn of the loop of inline
InlinePackage ==
    /\ phase = "inline"
    /\ idx <= Len(packages)
    /\ \E dir \in Dirs : Become(Inlined(Here, packages[idx], dir))
    /\ idx' = idx + 1
    /\ UNCHANGED <<given, packages, variant, other, call, ret>>

\* run after inline returned Ok
Finish ==
    /\ phase = "inline"
    /\ idx > Len(packages)
    /\ Become(Finished(Here))
    /\ UNCHANGED <<given, packages, variant, idx, other, call, ret>>

Next == RunStart \/ InlinePackage \/ Finish

Spec == Init /\ [][Next]_vars

----------------------------------------------------------------------------
(* Two runs over the same packages and the same file tree; the directory   *)
(* scan of the second may yield the entries of a root in another order.    *)

Reorderings(dir) ==
    {[ok |-> dir.ok, entries |-> [i \in 1..Len(dir.entries) |-> dir.entries[p[i]]]] :
        p \in Permutations(1..Len(dir.entries))}

TwoInit ==
    /\ NotStarted
    /\ given \in SeqsUpTo(Packages, MaxPackages)
    /\ packages = given
    /\ variant = "stdout"
    /\ other = Run("start", None, <<>>, <<>>, None, "none")
    /\ call = Idle
    /\ ret = Idle

TwoStart ==
    /\ phase = "start"
    /\ packages' = sort_by_key_name(packages)
    /\ Become(Started(None))
    /\ other' = Started(None)
    /\ idx' = 1
    /\ UNCHANGED <<given, variant, call, ret>>

TwoInline ==
    /\ phase = "inline" \/ other.phase = "inline"
    /\ idx >= 1
    /\ idx <= Len(packages)
    /\ \E dir \in Dirs : \E again \in Reorderings(dir) :
        /\ Become(Inlined(Here, packages[idx], dir))
        /\ other' = Inlined(other, packages[idx], again)
    /\ idx' = idx + 1
    /\ UNCHANGED <<given, packages, variant, call, ret>>

TwoFinish ==
    /\ phase = "inline" \/ other.phase = "inline"
    /\ idx > Len(packages)
    /\ Become(Finished(Here))
    /\ other' = Finished(other)
    /\ UNCHANGED <<given, packages, variant, idx, call, ret>>

TwoNext == TwoStart \/ TwoInline \/ TwoFinish

SpecTwoRuns == TwoInit /\ [][TwoNext]_vars

----------------------------------------------------------------------------
(* Functions applied on their own. *)

\* no run is in progress
NoRun ==
    /\ NotStarted
    /\ given = <<>>
    /\ packages = <<>>
    /\ variant = "stdout"
    /\ other = Idle

Alone == <<phase, given, packages, variant, idx, context, shell, out, quota, result, other>>

(* normalize *)

NormChars == {"a", "A", SP, LF, CR}

NormInit ==
    /\ NoRun
    /\ call \in SeqsUpTo(NormChars, MaxLen)
    /\ ret = Idle

Normalize ==
    /\ ret = Idle
    /\ ret' = <<normalize(call)>>
    /\ UNCHANGED <<call, Alone>>

NormalizeAgain ==
    /\ Len(ret) = 1
    /\ ret' = Append(ret, normalize(ret[1]))
    /\ UNCHANGED <<call, Alone>>

NormNext == Normalize \/ NormalizeAgain

SpecNorm == NormInit /\ [][NormNext]_vars

(* check_against_template *)

InsertAt(t, i, c) == SubSeq(t, 1, i) \o <<c>> \o SubSeq(t, i + 1, Len(t))
DeleteAt(t, i) == SubSeq(t, 1, i - 1) \o SubSeq(t, i + 1, Len(t))
ReplaceAt(t, i, c) == [t EXCEPT ![i] = c]

\* the texts one insertion, deletion or substitution away from t
Edits(t) ==
    {InsertAt(t, i, "x") : i \in 0..Len(t)}
        \cup {DeleteAt(t, i) : i \in 1..Len(t)}
        \cup {ReplaceAt(t, i, "x") : i \in 1..Len(t)}

RECURSIVE EditsUpTo(_, _)
EditsUpTo(ts, n) ==
    IF n = 0 THEN ts ELSE EditsUpTo(ts \cup UNION {Edits(t) : t \in ts}, n - 1)

ScoreTexts ==
    EditsUpTo({MitTemplate, MitTemplate \o ApacheTemplate}, MaxEdits)
        \cup {<<>>, OtherText, ApacheTemplate}

ScoreLicenses ==
    {MIT, Apache_2_0, Custom(Foo), Unspecified,
     Multiple(<<MIT, MIT>>), Multiple(<<MIT, Apache_2_0>>), Multiple(<<MIT, Custom(Foo)>>)}

ScoreInit ==
    /\ NoRun
    /\ call \in [text : ScoreTexts, license : ScoreLicenses]
    /\ ret = Idle

Check ==
    /\ ret = Idle
    /\ ret' = <<check_against_template(call.text, call.license)>>
    /\ UNCHANGED <<call, Alone>>

SpecScore == ScoreInit /\ [][Check]_vars

(* choose, and the rest of inline_license *)

\* the path of the i-th candidate: LICENSE-a, LICENSE-aa, ..
PathOf(i) == LICENSE \o <<"-">> \o [j \in 1..i |-> "a"]

CandidateTexts == {<<>>, <<"a">>, <<"a", LF, "b">>}
Confidences == {"Confident", "SemiConfident", "Unsure"}

CandidateLists ==
    {[i \in 1..Len(s) |-> LicenseText(PathOf(i), s[i][1], s[i][2])] :
        s \in SeqsUpTo(CandidateTexts \X Confidences, MaxCandidates)}

ChooseInit ==
    /\ NoRun
    /\ call \in [texts : CandidateLists,
                 context : [missing_license : BOOLEAN, low_quality_license : BOOLEAN]]
    /\ ret = Idle

\* what choose returns, and the run after inline_license has used it
Choose ==
    /\ ret = Idle
    /\ ret' = <<[chosen |-> choose(<<"b">>, MIT, call.texts).chosen,
                 w |-> Apply(call.context, <<>>, <<>>, None,
                             ChooseAndWrite([effects |-> <<>>, texts |-> call.texts],
                                            <<"b">>, MIT))]>>
    /\ UNCHANGED <<call, Alone>>

SpecChoose == ChooseInit /\ [][Choose]_vars

----------------------------------------------------------------------------
(* The properties. *)

IsHeader(e) == e.kind = "header"
HeadersOf(o) == SelectSeq(o, IsHeader)
Completed == phase = "done" /\ result \in {"Ok", "Err"}
Said(what) == \E k \in 1..Len(shell) : shell[k].kind = what

\* C1: every package whose license is Unspecified makes the run report
\* "<name> does not specify a license", set missing_license and end in
\* failure, whatever its directory holds and whatever the other packages are.
C1_UnspecifiedFails ==
    Completed =>
        \A i \in 1..Len(packages) :
            packages[i].license = Unspecified =>
                /\ \E k \in 1..Len(shell) :
                    shell[k] = Say("error", "does not specify a license",
                                   packages[i].name, Unspecified, <<>>)
                /\ context[1].missing_license
                /\ result = "Err"

ConfidentAt(texts) == {i \in 1..Len(texts) : texts[i].confidence = "Confident"}
SemiConfidentAt(texts) == {i \in 1..Len(texts) : texts[i].confidence = "SemiConfident"}
FirstOf(S) == CHOOSE i \in S : \A j \in S : i <= j

\* C2: when exactly one candidate given to choose is Confident, with any
\* SemiConfident and Unsure candidates around it in any order, choose returns
\* that candidate, gives the shell no warning and no error, and leaves
\* missing_license and low_quality_license as they were.
C2_TierPriority ==
    (ret # Idle /\ Cardinality(ConfidentAt(call.texts)) = 1) =>
        /\ ret[1].chosen = Some(call.texts[FirstOf(ConfidentAt(call.texts))])
        /\ ret[1].w.shell = <<>>
        /\ ret[1].w.missing_license = call.context.missing_license
        /\ ret[1].w.low_quality_license = call.context.low_quality_license

C2_Witness ==
    /\ ret # Idle
    /\ Len(call.texts) = 3
    /\ call.texts[1].confidence = "SemiConfident"
    /\ call.texts[2].confidence = "Confident"
    /\ call.texts[3].confidence = "Unsure"
    /\ call.context.low_quality_license
    /\ ~call.context.missing_license
    /\ ret[1].chosen = Some(call.texts[2])

\* C3: given no candidate, choose sets missing_license, returns nothing and no
\* text line is written; given two or more SemiConfident candidates and no
\* Confident one, it sets low_quality_license, the first SemiConfident
\* candidate is returned and its lines are the lines written, and the error
\* names the path of every SemiConfident candidate.
C3_CountEscalation ==
    ret # Idle =>
        /\ call.texts = <<>> =>
            /\ ret[1].w.missing_license
            /\ ret[1].chosen = None
            /\ ret[1].w.out = <<>>
        /\ (Cardinality(SemiConfidentAt(call.texts)) >= 2 /\ ConfidentAt(call.texts) = {}) =>
            /\ ret[1].w.low_quality_license
            /\ ret[1].chosen = Some(call.texts[FirstOf(SemiConfidentAt(call.texts))])
            /\ ret[1].w.out = WriteLines(call.texts[FirstOf(SemiConfidentAt(call.texts))].text)
            /\ \E k \in 1..Len(ret[1].w.shell) :
                /\ ret[1].w.shell[k].kind = "multiple low-confidence candidates"
                /\ ret[1].w.shell[k].severity = "error"
            /\ \A i \in SemiConfidentAt(call.texts) :
                \E k \in 1..Len(ret[1].w.shell) :
                    /\ ret[1].w.shell[k].kind = "path"
                    /\ ret[1].w.shell[k].severity = "error"
                    /\ ret[1].w.shell[k].text = call.texts[i].path

C3_Witness ==
    /\ ret # Idle
    /\ Len(call.texts) = 3
    /\ call.texts[1].confidence = "Unsure"
    /\ call.texts[2].confidence = "SemiConfident"
    /\ call.texts[3].confidence = "SemiConfident"
    /\ call.texts[2].text = <<"a", LF, "b">>
    /\ ~call.context.low_quality_license
    /\ ret[1].w.low_quality_license
    /\ Len(ret[1].w.out) = 2
    /\ Len(ret[1].w.shell) = 3

\* C4: check_against_template returns true only when, for every template it
\* scored, the ratio score / length is strictly below 0.1; a ratio of exactly
\* 0.1 is a non-match.
C4_StrictThreshold ==
    (ret # Idle /\ ret[1].matches) =>
        \A k \in 1..Len(ret[1].effects) :
            ret[1].effects[k].kind = "score" =>
                MaxLevenshteinRatioDen * ret[1].effects[k].score < ret[1].effects[k].len

IsSpace(c) == c \in {SP, CR, LF}
NoLongRun(x) ==
    \A i \in 1..Len(x) : ~(i + 2 <= Len(x) /\ IsSpace(x[i]) /\ IsSpace(x[i + 1]) /\ IsSpace(x[i + 2]))

\* C5 as stated: normalize(normalize(x)) = normalize(x) for every text x.
C5_Idempotent == Len(ret) = 2 => ret[2] = ret[1]

\* C5: normalize(normalize(x)) = normalize(x) exactly for the texts x that
\* hold no run of three or more characters among space, carriage return
\* and newline.
C5_IdempotentUpToPairs == Len(ret) = 2 => (ret[2] = ret[1] <=> NoLongRun(call))

C5_Witness ==
    /\ Len(ret) = 2
    /\ call = <<"a", SP, LF, "a">>
    /\ ret[1] = <<"A", SP, "A">>
    /\ ret[2] = ret[1]

\* C6 as stated: the names of the header lines are strictly ascending.
C6_StrictlyAscending ==
    \A i, j \in 1..Len(HeadersOf(out)) :
        i < j => NameLess(HeadersOf(out)[i].name, HeadersOf(out)[j].name)

\* srt holds the packages of ps by ascending name, those of one name in the
\* order they have in ps
StableSortOf(ps, srt) ==
    /\ Len(srt) = Len(ps)
    /\ \E f \in Permutations(1..Len(ps)) :
        /\ \A i \in 1..Len(ps) : srt[i] = ps[f[i]]
        /\ \A i, j \in 1..Len(ps) :
            i < j => /\ ~NameLess(srt[j].name, srt[i].name)
                     /\ srt[i].name = srt[j].name => f[i] < f[j]

C6_Headers ==
    /\ phase # "start" => StableSortOf(given, packages)
    /\ Len(HeadersOf(out)) <= Len(packages)
    /\ \A i \in 1..Len(HeadersOf(out)) :
        HeadersOf(out)[i] = Header(packages[i].name, packages[i].license)
    /\ Completed => Len(HeadersOf(out)) = Len(packages)
    /\ \A k \in 1..Len(out) :
        out[k].kind = "text" => \E j \in 1..(k - 1) : out[j].kind = "header"

\* what the turn of the loop for a package writes starts with the header of
\* that package and holds no other header
C6_Block ==
    (phase = "inline" /\ idx <= Len(packages) /\ out' # out) =>
        /\ Len(out') > Len(out)
        /\ SubSeq(out', 1, Len(out)) = out
        /\ out'[Len(out) + 1] = Header(packages[idx].name, packages[idx].license)
        /\ \A k \in (Len(out) + 2)..Len(out') : out'[k].kind # "header"

\* C6: for every input order the header lines are written by ascending
\* package name, packages of one name in their input order (strictly ascending
\* when the names differ), each package once, and the lines of a package come
\* after its header and before the next header.
C6_Order == []C6_Headers /\ [][C6_Block]_vars

C6_Witness ==
    /\ Completed
    /\ given = <<Package(<<"b">>, MIT), Package(<<"a", "b">>, Multiple(<<MIT, Apache_2_0>>))>>
    /\ Len(HeadersOf(out)) = 2
    /\ HeadersOf(out)[1].name = <<"a", "b">>
    /\ HeadersOf(out)[2].name = <<"b">>
    /\ \E k \in 1..Len(out) : out[k].kind = "text"

\* the lines of the bundle, without the progress lines println! adds to stdout
IsBundleLine(e) == e.stream = "out"

\* C7: two runs over the same packages and the same file tree write the same
\* output and end with the same missing_license and low_quality_license, in
\* whatever order the directory scans yield the entries of a root.
C7_Deterministic ==
    (phase = "done" /\ other.phase = "done") =>
        /\ SelectSeq(out, IsBundleLine) = SelectSeq(other.out, IsBundleLine)
        /\ context = other.context

C8_State ==
    /\ (context # None /\ idx <= 1) =>
        ~context[1].missing_license /\ ~context[1].low_quality_license
    /\ Completed =>
        /\ result = "Ok" <=> (~context[1].missing_license /\ ~context[1].low_quality_license)
        /\ (\E k \in 1..Len(shell) : shell[k] = MissingSummary) <=> context[1].missing_license
        /\ (\E k \in 1..Len(shell) : shell[k] = LowQualitySummary)
                <=> context[1].low_quality_license

C8_Step ==
    context # None =>
        /\ context' # None
        /\ context[1].missing_license => context'[1].missing_license
        /\ context[1].low_quality_license => context'[1].low_quality_license

\* C8: missing_license and low_quality_license start false and never go from
\* true to false; when every package has been processed without an I/O
\* failure, run returns success exactly when both are false, the missing
\* license summary is given iff missing_license and the low quality summary
\* iff low_quality_license.
C8_Flags == []C8_State /\ [][C8_Step]_vars

C8_Witness ==
    /\ Completed
    /\ Len(packages) = 2
    /\ context[1].low_quality_license
    /\ ~context[1].missing_license
    /\ result = "Err"
    /\ \E k \in 1..Len(shell) : shell[k] = LowQualitySummary

\* C9: scoring a text against the templates of a License::Multiple never
\* slices past the end of the text, so it never aborts the run.
C9_SliceGuarded ==
    ret # Idle => \A k \in 1..Len(ret[1].effects) : ret[1].effects[k] # Panic

\* C10: a run that wrote a text of confidence Unsure (the shell is told of a
\* very low-confidence candidate exactly when one is written) ends with
\* low_quality_license set and returns failure.
C10_UnsureFails ==
    (Completed /\ (Said("very low-confidence candidate")
                    \/ Said("multiple very low-confidence candidates"))) =>
        (context[1].low_quality_license /\ result = "Err")

====
